---- MODULE Spec2Model ----
(***************************************************************************)
(* A model of grove-demo.py: an HTML document kept as a flat set of        *)
(* labelled edges (the grove), the recursive renderer that prints it, and  *)
(* the add functions that grow it.                                         *)
(*                                                                         *)
(* Python strings are modelled as sequences of one-character strings, so   *)
(* that startswith/endswith, slicing, the f-string formatting of ids and   *)
(* the lexicographic comparison used by max() are computed as the code     *)
(* computes them.                                                          *)
(***************************************************************************)
EXTENDS Integers, Sequences, FiniteSets, TLC

VARIABLES
    edges,      \* the store: a set of edge tuples (the code's `edges` / `example`)
    mode,       \* "main": about to run line 87; "ui": add calls arrive;
                \* "scenario", "scenario_failed", "scenario_done": the build-and-render scenario;
                \* "render": a store handed to render from outside
    lastCall,   \* the last Mutator call: its arguments and whether it raised
    scnStep,    \* number of scenario calls completed
    rendered,   \* the arguments of the last render call (called = FALSE before any)
    output,     \* the text the last render call printed
    renderRaised, \* whether the last render call ended with RecursionError
    renderCalls,  \* the node ids the last render call was invoked on, in order
    renderFollowed, \* the ids of the edges the last render call followed, in order
    threads     \* the add calls running concurrently: each one's arguments,
                \* the line it is at and the ids it has read (<<>> when there are none)

vars == <<edges, mode, lastCall, scnStep, rendered, output, renderRaised, renderCalls,
          renderFollowed, threads>>

----------------------------------------------------------------------------
(* Bounds of the model *)

\* the add calls stop once the store holds this many edges
MaxEdges == 11
\* the largest store handed to render from outside
MaxStoreEdges == 2
\* stands for the interpreter's recursion limit (sys.getrecursionlimit())
RecursionLimit == 8
\* the largest edge id number of a store handed to add from outside
MaxLoadedId == 3

----------------------------------------------------------------------------
(* String literals of the source *)

T_body == <<"<","b","o","d","y",">">>
T_a == <<"<","a",">">>
T_p == <<"<","p",">">>
T_strong == <<"<","s","t","r","o","n","g",">">>
P_firstChild == <<"f","i","r","s","t","C","h","i","l","d">>
P_nextElement == <<"n","e","x","t","E","l","e","m","e","n","t">>
P_attr_href == <<"a","t","t","r","_","h","r","e","f">>
P_attr_id == <<"a","t","t","r","_","i","d">>
P_bogus == <<"b","o","g","u","s","_","p","o","s","i","t","i","o","n">>
StringOpen == <<"s","t","r","i","n","g","(","\"">>
StringClose == <<"\"",")">>
AttrPrefix == <<"a","t","t","r","_">>
NodePrefix == <<"n","o","d","e">>
EdgePrefix == <<"e","d","g","e">>
V_url == <<"h","t","t","p",":","/","/","e","x","a","m","p","l","e",".","c","o","m">>
V_click == <<"C","l","i","c","k"," ","h","e","r","e">>
V_hello == <<"H","e","l","l","o",","," ">>
V_world == <<"w","o","r","l","d","!">>
V_helloworld == <<"H","e","l","l","o",","," ","w","o","r","l","d","!">>
V_x == <<"x">>
V_y == <<"y">>
T_linkedList == <<"l","i","n","k","e","d","L","i","s","t">>

----------------------------------------------------------------------------
(* Python string operations *)

\* s.startswith(p)
StartsWith(s, p) == Len(s) >= Len(p) /\ SubSeq(s, 1, Len(p)) = p

\* s.endswith(p)
EndsWith(s, p) == Len(s) >= Len(p) /\ SubSeq(s, Len(s) - Len(p) + 1, Len(s)) = p

\* s[a:] for a >= 0
SliceFrom(s, a) == SubSeq(s, a + 1, Len(s))

\* s[a:-b] for a >= 0, b > 0
SliceBetween(s, a, b) == SubSeq(s, a + 1, Len(s) - b)

Digits == <<"0","1","2","3","4","5","6","7","8","9">>

DigitValue(c) == (CHOOSE i \in 1..10 : Digits[i] = c) - 1

IsDigit(c) == \E i \in 1..10 : Digits[i] = c

\* the code point of a character that occurs in an id (ord(c))
CodePoint(c) ==
    CASE IsDigit(c) -> 48 + DigitValue(c)
      [] c = "d" -> 100
      [] c = "e" -> 101
      [] c = "g" -> 103
      [] c = "n" -> 110
      [] c = "o" -> 111

\* a < b for Python strings: lexicographic by code point
StrLess(a, b) ==
    \E i \in 1..Len(b) :
        /\ i <= Len(a) + 1
        /\ \A j \in 1..(i - 1) : a[j] = b[j]
        /\ \/ i = Len(a) + 1
           \/ i <= Len(a) /\ CodePoint(a[i]) < CodePoint(b[i])

\* max(list) of strings; the list is given by the set of its elements
StrMax(S) == CHOOSE m \in S : \A t \in S : ~StrLess(m, t)

\* str(n) as an f-string formats a non-negative int
RECURSIVE Decimal(_)
Decimal(n) ==
    IF n < 10 THEN <<Digits[n + 1]>>
    ELSE Decimal(n \div 10) \o <<Digits[(n % 10) + 1]>>

\* whether int(s) accepts s (plain decimal digits; int("") raises ValueError)
IsDecimal(s) == Len(s) > 0 /\ \A i \in 1..Len(s) : IsDigit(s[i])

\* int(s) for a string of decimal digits
RECURSIVE ParseInt(_)
ParseInt(s) ==
    IF Len(s) = 0 THEN 0
    ELSE 10 * ParseInt(SubSeq(s, 1, Len(s) - 1)) + DigitValue(s[Len(s)])

----------------------------------------------------------------------------
(* The store *)

\* an edge tuple; the fields are the code's indices EDGE_ID .. STATUS
Edge(id, from, fromType, pos, to, toType, st) ==
    [edge_id |-> id, node_id_from |-> from, node_type_from |-> fromType,
     position_from |-> pos, node_id_to |-> to, node_type_to |-> toType,
     status |-> st]

NodeId(k) == NodePrefix \o Decimal(k)
EdgeId(k) == EdgePrefix \o Decimal(k)

\* f'string("{string_value}")'
StringType(v) == StringOpen \o v \o StringClose

example ==
    { Edge(EdgeId(0), NodeId(0), T_body, P_firstChild, NodeId(1), T_a, "active"),
      Edge(EdgeId(1), NodeId(1), T_a, P_attr_href, NodeId(2), StringType(V_url), "active"),
      Edge(EdgeId(2), NodeId(1), T_a, P_firstChild, NodeId(3), StringType(V_click), "active"),
      Edge(EdgeId(3), NodeId(1), T_a, P_nextElement, NodeId(4), T_p, "active"),
      Edge(EdgeId(4), NodeId(4), T_p, P_firstChild, NodeId(5), StringType(V_hello), "active"),
      Edge(EdgeId(5), NodeId(5), StringType(V_hello), P_nextElement, NodeId(6), T_strong, "active"),
      Edge(EdgeId(6), NodeId(6), T_strong, P_firstChild, NodeId(7), StringType(V_world), "active") }

root == NodeId(0)
root_type == T_body

\* the legal positions of each constructor; "string(*)" stands for every string type
constructors_positions(type) ==
    CASE type = T_body -> {P_firstChild, P_nextElement}
      [] type = T_a -> {P_attr_href, P_firstChild, P_nextElement}
      [] type = T_p -> {P_firstChild, P_nextElement}
      [] StartsWith(type, StringOpen) /\ EndsWith(type, StringClose) -> {P_nextElement}
      [] OTHER -> {}

\* the node ids next_node_id collects: every destination and every source
StoreNodes(es) == {e.node_id_to : e \in es} \cup {e.node_id_from : e \in es}

----------------------------------------------------------------------------
(* Id allocation and add *)

\* next_node_id: max() is the maximum of the id STRINGS; max([]) raises
\* ValueError, and so does int() of a suffix that is not a number
next_node_id(es) ==
    LET nodes == StoreNodes(es) IN
    IF nodes = {} THEN [raised |-> TRUE, id |-> <<>>]
    ELSE LET max_node == StrMax(nodes)
             suffix == SliceFrom(max_node, 4)
         IN IF ~IsDecimal(suffix) THEN [raised |-> TRUE, id |-> <<>>]
            ELSE [raised |-> FALSE, id |-> NodePrefix \o Decimal(ParseInt(suffix) + 1)]

\* next_edge_id with the count off by one: the id of the newest edge again
next_edge_id_off_by_one(es) ==
    EdgePrefix \o Decimal(IF es = {} THEN 0 ELSE Cardinality(es) - 1)

\* next_edge_id: f"edge{len(edges)}"
next_edge_id(es) == EdgePrefix \o Decimal(Cardinality(es))

\* add that puts the new edge in place of the edges already at the position
add_replacing(es, from_node_id, from_node_type, from_position, to_node_type) ==
    LET new_edge_id == next_edge_id(es)
        new_node == next_node_id(es)
        kept == {e \in es : ~(e.node_id_from = from_node_id
                              /\ e.position_from = from_position)}
    IN IF new_node.raised THEN [raised |-> TRUE, edges |-> es]
       ELSE [raised |-> FALSE,
             edges |-> kept \cup {Edge(new_edge_id, from_node_id, from_node_type,
                                       from_position, new_node.id, to_node_type, "active")}]

\* add: both ids are computed before the tuple is inserted, so an exception in
\* next_node_id leaves the set as it was; set.add of a tuple already present
\* changes nothing
add(es, from_node_id, from_node_type, from_position, to_node_type) ==
    LET new_edge_id == next_edge_id(es)
        new_node == next_node_id(es)
    IN IF new_node.raised THEN [raised |-> TRUE, edges |-> es]
       ELSE [raised |-> FALSE,
             edges |-> es \cup {Edge(new_edge_id, from_node_id, from_node_type,
                                     from_position, new_node.id, to_node_type, "active")}]

add_firstChild(es, from_node_id, from_node_type, to_node_type) ==
    add(es, from_node_id, from_node_type, P_firstChild, to_node_type)

add_nextElement(es, from_node_id, from_node_type, to_node_type) ==
    add(es, from_node_id, from_node_type, P_nextElement, to_node_type)

add_string(es, from_node_id, from_node_type, from_position, string_value) ==
    add(es, from_node_id, from_node_type, from_position, StringType(string_value))

add_href(es, from_node_id, href_value) ==
    add_string(es, from_node_id, T_a, P_attr_href, href_value)

----------------------------------------------------------------------------
(* render *)

\* The orders in which iterating the set can yield its elements: the iteration
\* order of a Python set is unspecified (it follows the elements' hashes, and
\* string hashes differ from one interpreter run to the next)
RECURSIVE Enumerations(_)
Enumerations(S) ==
    IF S = {} THEN {<<>>}
    ELSE UNION {{<<x>> \o p : p \in Enumerations(S \ {x})} : x \in S}

is_string_node(root_node_type) ==
    StartsWith(root_node_type, StringOpen) /\ EndsWith(root_node_type, StringClose)

is_element_node(root_node_type) ==
    StartsWith(root_node_type, <<"<">>) /\ EndsWith(root_node_type, <<">">>)

\* edges_from_root without the test of the status
edges_from_root_any_status(s, root_node_id) ==
    SelectSeq(s, LAMBDA e : e.node_id_from = root_node_id)

\* [e for e in edges if e[NODE_ID_FROM] == root_node_id and e[STATUS] == "active"],
\* s being the order in which the set is enumerated
edges_from_root(s, root_node_id) ==
    SelectSeq(s, LAMBDA e : e.node_id_from = root_node_id /\ e.status = "active")

attributes_edges(from_root) ==
    SelectSeq(from_root, LAMBDA e : StartsWith(e.position_from, AttrPrefix))

firstChild_edges(from_root) ==
    SelectSeq(from_root, LAMBDA e : e.position_from = P_firstChild)

\* nextElement_edges that finds no sibling
nextElement_edges_none(from_root) ==
    SelectSeq(from_root, LAMBDA e : FALSE)

nextElement_edges(from_root) ==
    SelectSeq(from_root, LAMBDA e : e.position_from = P_nextElement)

\* print(text, end=''): nothing more is printed once an exception is on its way up
Emit(acc, text) == IF acc.raised THEN acc ELSE [acc EXCEPT !.out = @ \o text]

\* render, threading what the call has printed so far (out), whether
\* RecursionError was raised, the node ids render was invoked on (calls) and
\* the ids of the edges whose target it was invoked on (followed)
RECURSIVE RenderNode(_, _, _, _, _)
RECURSIVE RenderAttributes(_, _, _, _, _)
RECURSIVE RenderTargets(_, _, _, _, _)

\* render(edges, e[NODE_ID_TO], e[NODE_TYPE_TO]) for an edge e of a loop
RenderEdge(s, e, depth, acc) ==
    RenderNode(s, e.node_id_to, e.node_type_to, depth + 1,
               [acc EXCEPT !.followed = Append(@, e.edge_id)])

\* the loop of lines 41-44 from its i-th edge on
RenderAttributes(s, list, i, depth, acc) ==
    IF i > Len(list) \/ acc.raised THEN acc
    ELSE LET attr_edge == list[i]
             a1 == Emit(acc, <<" ">> \o SliceFrom(attr_edge.position_from, 5) \o <<"=", "\"">>)
             a2 == RenderEdge(s, attr_edge, depth, a1)
             a3 == Emit(a2, <<"\"">>)
         IN RenderAttributes(s, list, i + 1, depth, a3)

\* the loops of lines 48-49 and 54-55 from their i-th edge on
RenderTargets(s, list, i, depth, acc) ==
    IF i > Len(list) \/ acc.raised THEN acc
    ELSE RenderTargets(s, list, i + 1, depth, RenderEdge(s, list[i], depth, acc))

RenderNode(s, root_node_id, root_node_type, depth, acc) ==
    IF acc.raised THEN acc
    ELSE IF depth > RecursionLimit THEN [acc EXCEPT !.raised = TRUE]
    ELSE
      LET from_root == edges_from_root(s, root_node_id)
          a0 == [acc EXCEPT !.calls = Append(@, root_node_id)]
          a1 == IF is_string_node(root_node_type)
                THEN Emit(a0, SliceBetween(root_node_type, 8, 2))
                ELSE a0
          a2 == IF is_element_node(root_node_type)
                THEN LET b1 == Emit(a1, SliceBetween(root_node_type, 0, 1))
                         b2 == RenderAttributes(s, attributes_edges(from_root), 1, depth, b1)
                         b3 == Emit(b2, <<">">>)
                         b4 == RenderTargets(s, firstChild_edges(from_root), 1, depth, b3)
                     IN Emit(b4, <<"<", "/">> \o SliceBetween(root_node_type, 1, 1) \o <<">">>)
                ELSE a1
      IN IF is_string_node(root_node_type) \/ is_element_node(root_node_type)
         THEN RenderTargets(s, nextElement_edges(from_root), 1, depth, a2)
         ELSE a2

\* render(edges, root_node_id, root_node_type), the set being enumerated in order s
render(s, root_node_id, root_node_type) ==
    RenderNode(s, root_node_id, root_node_type, 1,
               [out |-> <<>>, raised |-> FALSE, calls |-> <<>>, followed |-> <<>>])

----------------------------------------------------------------------------
(* The program: line 87 renders the example, then the add functions are called *)

\* error: "none" when the call returned, else the exception it raised
NoCall ==
    [op |-> "none", node_id_from |-> <<>>, node_type_from |-> <<>>,
     position_from |-> <<>>, node_type_to |-> <<>>, error |-> "none"]

NoRender == [called |-> FALSE, root_node_id |-> <<>>, root_node_type |-> <<>>]

\* the source nodes the add functions are called on: the root of an empty
\* document, else the <a> node and the node with the two-digit id
CallSources(es) ==
    IF es = {} THEN {root}
    ELSE {NodeId(1), NodeId(10)} \cap StoreNodes(es)

\* the types a caller knows a node by: the type it was created with
TypesOf(es, n) ==
    {e.node_type_to : e \in {d \in es : d.node_id_to = n}}
        \cup (IF n = root THEN {root_type} ELSE {})

\* the effect of one call of an add function with result r
Called(op, from_node_id, from_node_type, from_position, to_node_type, r) ==
    /\ edges' = r.edges
    /\ lastCall' = [op |-> op, node_id_from |-> from_node_id,
                    node_type_from |-> from_node_type,
                    position_from |-> from_position,
                    node_type_to |-> to_node_type,
                    error |-> IF r.raised THEN "ValueError" ELSE "none"]

\* the effect of one render call with result r
Rendered(root_node_id, root_node_type, r) ==
    /\ rendered' = [called |-> TRUE, root_node_id |-> root_node_id,
                    root_node_type |-> root_node_type]
    /\ output' = r.out
    /\ renderRaised' = r.raised
    /\ renderCalls' = r.calls
    /\ renderFollowed' = r.followed

Init ==
    /\ \/ edges = example /\ mode = "main"
       \/ edges = {} /\ mode \in {"ui", "scenario"}
    /\ lastCall = NoCall
    /\ scnStep = 0
    /\ rendered = NoRender
    /\ output = <<>>
    /\ renderRaised = FALSE
    /\ renderCalls = <<>>
    /\ renderFollowed = <<>>
    /\ threads = <<>>

\* line 87: render(example, root, root_type)
Main ==
    /\ mode = "main"
    /\ \E s \in Enumerations(edges) :
          Rendered(root, root_type, render(s, root, root_type))
    /\ mode' = "ui"
    /\ UNCHANGED <<edges, lastCall, scnStep, threads>>

AddCall ==
    /\ mode = "ui"
    /\ Cardinality(edges) < MaxEdges
    /\ \E f \in CallSources(edges) : \E ft \in TypesOf(edges, f) :
          Called("add", f, ft, P_bogus, T_p, add(edges, f, ft, P_bogus, T_p))
    /\ UNCHANGED <<mode, scnStep, rendered, output, renderRaised, renderCalls, renderFollowed, threads>>

AddFirstChildCall ==
    /\ mode = "ui"
    /\ Cardinality(edges) < MaxEdges
    /\ \E f \in CallSources(edges) : \E ft \in TypesOf(edges, f) :
          Called("add_firstChild", f, ft, P_firstChild, T_p,
                 add_firstChild(edges, f, ft, T_p))
    /\ UNCHANGED <<mode, scnStep, rendered, output, renderRaised, renderCalls, renderFollowed, threads>>

AddNextElementCall ==
    /\ mode = "ui"
    /\ Cardinality(edges) < MaxEdges
    /\ \E f \in CallSources(edges) : \E ft \in TypesOf(edges, f) :
          Called("add_nextElement", f, ft, P_nextElement, T_p,
                 add_nextElement(edges, f, ft, T_p))
    /\ UNCHANGED <<mode, scnStep, rendered, output, renderRaised, renderCalls, renderFollowed, threads>>

AddStringCall ==
    /\ mode = "ui"
    /\ Cardinality(edges) < MaxEdges
    /\ \E f \in CallSources(edges) : \E ft \in TypesOf(edges, f) :
          Called("add_string", f, ft, P_firstChild, StringType(V_x),
                 add_string(edges, f, ft, P_firstChild, V_x))
    /\ UNCHANGED <<mode, scnStep, rendered, output, renderRaised, renderCalls, renderFollowed, threads>>

\* add_href takes the node id alone: it is also called on the <p> node
HrefSources(es) == CallSources(es) \cup ({NodeId(4)} \cap StoreNodes(es))

AddHrefCall ==
    /\ mode = "ui"
    /\ Cardinality(edges) < MaxEdges
    /\ \E f \in HrefSources(edges) :
          Called("add_href", f, T_a, P_attr_href, StringType(V_x),
                 add_href(edges, f, V_x))
    /\ UNCHANGED <<mode, scnStep, rendered, output, renderRaised, renderCalls, renderFollowed, threads>>

----------------------------------------------------------------------------
(* The build-and-render scenario on an empty store *)

\* the <a> node: the first child of the root
ScenarioA(es) ==
    (CHOOSE e \in es : e.node_id_from = root /\ e.position_from = P_firstChild).node_id_to

\* the <p> node: the next sibling of the <a> node
ScenarioP(es) ==
    (CHOOSE e \in es : e.node_id_from = ScenarioA(es)
                         /\ e.position_from = P_nextElement).node_id_to

\* the k-th call of the scenario
ScenarioCall(k, es) ==
    CASE k = 1 -> add_firstChild(es, root, T_body, T_a)
      [] k = 2 -> add_href(es, ScenarioA(es), V_url)
      [] k = 3 -> add_string(es, ScenarioA(es), T_a, P_firstChild, V_click)
      [] k = 4 -> add_nextElement(es, ScenarioA(es), T_a, T_p)
      [] k = 5 -> add_string(es, ScenarioP(es), T_p, P_firstChild, V_helloworld)

\* one step of the scenario: the five add calls, then the render; an
\* exception ends the scenario
ScenarioStep ==
    /\ mode = "scenario"
    /\ IF scnStep < 5
       THEN LET r == ScenarioCall(scnStep + 1, edges) IN
            /\ edges' = r.edges
            /\ lastCall' = [NoCall EXCEPT !.op = "scenario",
                                           !.error = IF r.raised THEN "ValueError" ELSE "none"]
            /\ scnStep' = IF r.raised THEN scnStep ELSE scnStep + 1
            /\ mode' = IF r.raised THEN "scenario_failed" ELSE "scenario"
            /\ UNCHANGED <<rendered, output, renderRaised, renderCalls, renderFollowed, threads>>
       ELSE /\ \E s \in Enumerations(edges) :
                  Rendered(root, T_body, render(s, root, T_body))
            /\ mode' = "scenario_done"
            /\ UNCHANGED <<edges, lastCall, scnStep, threads>>

Next ==
    \/ Main
    \/ AddCall
    \/ AddFirstChildCall
    \/ AddNextElementCall
    \/ AddStringCall
    \/ AddHrefCall
    \/ ScenarioStep

Spec == Init /\ [][Next]_vars

----------------------------------------------------------------------------
(* render as a function of a store handed to it from outside *)

RenderNodes == {NodeId(0), NodeId(1), NodeId(2)}

\* node0 is an element, node1 and node2 are leaves
RenderNodeType(n) ==
    CASE n = NodeId(0) -> T_a
      [] n = NodeId(1) -> StringType(V_x)
      [] n = NodeId(2) -> StringType(V_y)

\* the edges a store is made of: from the element to either leaf at any
\* position, a self-loop of the element, and from a leaf on to the element
RenderEdgeChoices ==
    [from : {NodeId(0)}, to : {NodeId(1), NodeId(2)},
     pos : {P_attr_href, P_attr_id, P_firstChild, P_nextElement},
     st : {"active", "retired"}]
    \cup [from : {NodeId(0)}, to : {NodeId(0)},
          pos : {P_firstChild, P_nextElement}, st : {"active", "retired"}]
    \cup [from : {NodeId(1)}, to : {NodeId(0)},
          pos : {P_nextElement}, st : {"active", "retired"}]

\* the store whose i-th edge, edge(i-1), is the i-th choice
StoreOf(q) ==
    {Edge(EdgeId(i - 1), q[i].from, RenderNodeType(q[i].from), q[i].pos,
          q[i].to, RenderNodeType(q[i].to), q[i].st) : i \in 1..Len(q)}

RenderStores ==
    UNION {{StoreOf(q) : q \in [1..k -> RenderEdgeChoices]} : k \in 0..MaxStoreEdges}

InitRender ==
    /\ edges \in RenderStores
    /\ mode = "render"
    /\ lastCall = NoCall
    /\ scnStep = 0
    /\ rendered = NoRender
    /\ output = <<>>
    /\ renderRaised = FALSE
    /\ renderCalls = <<>>
    /\ renderFollowed = <<>>
    /\ threads = <<>>

\* one execution of render on the store, from any of its nodes
RenderCall ==
    /\ mode = "render"
    /\ \E n \in RenderNodes : \E s \in Enumerations(edges) :
          Rendered(n, RenderNodeType(n), render(s, n, RenderNodeType(n)))
    /\ UNCHANGED <<edges, mode, lastCall, scnStep, threads>>

NextRender == RenderCall

SpecRender == InitRender /\ [][NextRender]_vars

----------------------------------------------------------------------------
(* Properties of the add functions, checked under Spec *)

\* the numeric suffix of an id: int(id[4:])
IdNumber(id) == ParseInt(SliceFrom(id, 4))

Range(seq) == {seq[i] : i \in 1..Len(seq)}

ActiveEdges(es) == {e \in es : e.status = "active"}

\* the nodes reachable from the nodes of S along active edges, S included
RECURSIVE ReachFrom(_, _)
ReachFrom(es, S) ==
    LET T == S \cup {e.node_id_to : e \in {d \in ActiveEdges(es) : d.node_id_from \in S}}
    IN IF T = S THEN S ELSE ReachFrom(es, T)

\* the nodes reachable from n along one or more active edges
Descendants(es, n) ==
    ReachFrom(es, {e.node_id_to : e \in {d \in ActiveEdges(es) : d.node_id_from = n}})

\* invariant I4: below r, every node has at most one incoming active edge and
\* no node is its own descendant
I4(es, r) ==
    \A n \in ReachFrom(es, {r}) :
        /\ Cardinality({e \in ActiveEdges(es) : e.node_id_to = n}) <= 1
        /\ n \notin Descendants(es, n)

\* a step in which one of the add functions is called
IsAddStep == mode = "ui" \/ (mode = "scenario" /\ scnStep < 5)

\* C1: every add allocates a destination node id whose number is greater than
\* that of every node id already in the store (ids are monotonic, never reused)
C1_NodeIdsMonotonic ==
    [][\A e \in edges' \ edges : \A n \in StoreNodes(edges) :
           IdNumber(e.node_id_to) > IdNumber(n)]_vars

\* C2: in every state reached from the example store by add calls on nodes of
\* the store, the active edges below the root satisfy I4 (single parent, no
\* self-loop, no cycle)
C2_I4Enforced == I4(edges, root)

\* the reserved position names, legal whatever the registry holds
IsReservedPosition(p) ==
    \/ StartsWith(p, AttrPrefix)
    \/ p \in {<<"v","a","l","u","e">>, <<"h","e","a","d">>, <<"t","a","i","l">>,
              P_firstChild, P_nextElement}

IsLegalPosition(type, p) == p \in constructors_positions(type) \/ IsReservedPosition(p)

\* C3: an add call whose position is neither legal for the source type nor
\* reserved fails and leaves the edge set unchanged (the code has no
\* IllegalPosition exception: any exception counts as the rejection here)
C3_IllegalPositionRejected ==
    [][(IsAddStep /\ lastCall'.op # "scenario"
          /\ ~IsLegalPosition(lastCall'.node_type_from, lastCall'.position_from))
        => (lastCall'.error # "none" /\ edges' = edges)]_vars

ExpectedText ==
    <<"<","b","o","d","y",">","<","a"," ","h","r","e","f","=","\"","h","t","t","p",":","/","/",
      "e","x","a","m","p","l","e",".","c","o","m","\"",">","C","l","i","c","k"," ","h","e","r","e",
      "<","/","a",">","<","p",">","H","e","l","l","o",","," ","w","o","r","l","d","!",
      "<","/","p",">","<","/","b","o","d","y",">">>

\* C4: from the empty store every call of the scenario succeeds, and the
\* render that ends it prints the expected text
C4_ScenarioRenders ==
    /\ mode # "scenario_failed"
    /\ mode = "scenario_done" => (~renderRaised /\ output = ExpectedText)

\* C5: render(example, root, root_type) prints the text of the comment on line 86
C5_ExampleRendersAsCommented ==
    (rendered.called /\ edges = example /\ rendered.root_node_id = root
        /\ rendered.root_node_type = root_type)
    => output = ExpectedText

\* C6: the edge ids of the store are pairwise different, and every add
\* allocates an edge id whose number is greater than that of every edge id
\* already in the store
C6_EdgeIdsUniqueMonotonic ==
    /\ [](\A e1, e2 \in edges : e1.edge_id = e2.edge_id => e1 = e2)
    /\ [][\A e \in edges' \ edges : \A d \in edges :
              IdNumber(e.edge_id) > IdNumber(d.edge_id)]_vars

\* C6 happens: adds have succeeded from the example store, the last of them
\* giving out a node id a second time, and the store holds an edge10
C6_Witness ==
    /\ example \subseteq edges
    /\ lastCall.error = "none"
    /\ \E e \in edges : e.edge_id = EdgeId(10)
    /\ \E e1, e2 \in edges : e1 # e2 /\ e1.node_id_to = e2.node_id_to

\* C10: every call of an add function either adds exactly one edge, active and
\* to a node id not in the store before, keeping every edge that was there, or
\* fails and leaves the edge set as it was
C10_AtomicAppendOnly ==
    [][IsAddStep =>
         \/ /\ lastCall'.error = "none"
            /\ edges \subseteq edges'
            /\ Cardinality(edges' \ edges) = 1
            /\ \A e \in edges' \ edges :
                  e.status = "active" /\ e.node_id_to \notin StoreNodes(edges)
         \/ /\ lastCall'.error # "none"
            /\ edges' = edges]_vars

----------------------------------------------------------------------------
(* Properties of render, checked under SpecRender *)

\* the place of the first occurrence of x in seq
FirstIndex(seq, x) ==
    CHOOSE i \in 1..Len(seq) : seq[i] = x /\ \A j \in 1..(i - 1) : seq[j] # x

IsAttributeEdge(e) == e.status = "active" /\ StartsWith(e.position_from, AttrPrefix)

\* C7: the attribute edges of a node are followed, and so their attributes
\* printed, in ascending order of edge id
C7_AttributesInEdgeIdOrder ==
    rendered.called =>
        \A a, b \in {e \in edges : IsAttributeEdge(e)} :
            (/\ a.node_id_from = b.node_id_from
             /\ IdNumber(a.edge_id) < IdNumber(b.edge_id)
             /\ a.edge_id \in Range(renderFollowed)
             /\ b.edge_id \in Range(renderFollowed))
            => FirstIndex(renderFollowed, a.edge_id) < FirstIndex(renderFollowed, b.edge_id)

\* C8: two executions of render on the same store and root print the same text
C8_RenderDeterministic ==
    [][(rendered.called /\ rendered' = rendered /\ edges' = edges)
        => (output' = output /\ renderRaised' = renderRaised)]_vars

\* the enumeration s without the edge e
Without(s, e) == SelectSeq(s, LAMBDA d : d # e)

\* the enumeration s with the edge e active again, in the place it has
Reactivated(s, e) ==
    [i \in 1..Len(s) |-> IF s[i] = e THEN [e EXCEPT !.status = "active"] ELSE s[i]]

\* C9: render never follows a retired edge e: it is not among the edges
\* followed; e's target is not visited unless active edges lead to it; the
\* call does what it does on the store without e; and a root that did not
\* reach e's source before the retirement prints what it printed then
C9_RetiredEdgesInvisible ==
    rendered.called =>
        \A e \in {d \in edges : d.status = "retired"} :
            /\ e.edge_id \notin Range(renderFollowed)
            /\ e.node_id_to \notin ReachFrom(edges, {rendered.root_node_id})
                  => e.node_id_to \notin Range(renderCalls)
            /\ \A s \in Enumerations(edges) :
                  LET now == render(s, rendered.root_node_id, rendered.root_node_type)
                      before == render(Reactivated(s, e), rendered.root_node_id,
                                       rendered.root_node_type)
                  IN /\ now = render(Without(s, e), rendered.root_node_id,
                                     rendered.root_node_type)
                     /\ e.node_id_from \notin Range(before.calls) => now.out = before.out

\* C9 happens: render has visited the source of a retired edge whose position
\* it follows, the target of that edge has an active edge of its own, and the
\* target was not visited
C9_Witness ==
    /\ rendered.called
    /\ \E e \in edges :
          /\ e.status = "retired"
          /\ e.node_id_from \in Range(renderCalls)
          /\ e.position_from \in {P_firstChild, P_nextElement}
          /\ e.node_id_to \notin Range(renderCalls)
          /\ \E d \in ActiveEdges(edges) :
                d.node_id_from = e.node_id_to /\ d.node_id_to # e.node_id_from

----------------------------------------------------------------------------
(* Two add calls running concurrently on the example store *)

\* the calls a mutator may be making: add_firstChild, add_nextElement,
\* add_href and add_string, each as the arguments add receives
ConcurrentCalls ==
    { [from_node_id |-> NodeId(1), from_node_type |-> T_a,
       from_position |-> P_firstChild, to_node_type |-> T_p],
      [from_node_id |-> NodeId(4), from_node_type |-> T_p,
       from_position |-> P_nextElement, to_node_type |-> T_p],
      [from_node_id |-> NodeId(1), from_node_type |-> T_a,
       from_position |-> P_attr_href, to_node_type |-> StringType(V_x)],
      [from_node_id |-> NodeId(4), from_node_type |-> T_p,
       from_position |-> P_firstChild, to_node_type |-> StringType(V_x)] }

\* a call of add that has not run any of its steps
Entered(call) ==
    [call |-> call, pc |-> "next_edge_id", new_edge_id |-> <<>>, new_node_id |-> <<>>]

InitConcurrent ==
    /\ edges = example
    /\ mode = "concurrent"
    /\ threads \in [1..2 -> {Entered(c) : c \in ConcurrentCalls}]
    /\ lastCall = NoCall
    /\ scnStep = 0
    /\ rendered = NoRender
    /\ output = <<>>
    /\ renderRaised = FALSE
    /\ renderCalls = <<>>
    /\ renderFollowed = <<>>

\* line 67, first operand: next_edge_id(edges)
ReadEdgeId(t) ==
    /\ threads[t].pc = "next_edge_id"
    /\ threads' = [threads EXCEPT ![t].new_edge_id = next_edge_id(edges),
                                  ![t].pc = "next_node_id"]
    /\ UNCHANGED edges

\* line 67, second operand: next_node_id(edges)
ReadNodeId(t) ==
    /\ threads[t].pc = "next_node_id"
    /\ LET new_node == next_node_id(edges) IN
       threads' = [threads EXCEPT ![t].new_node_id = new_node.id,
                                  ![t].pc = IF new_node.raised THEN "raised" ELSE "add"]
    /\ UNCHANGED edges

\* line 68: edges.add(...)
InsertEdge(t) ==
    /\ threads[t].pc = "add"
    /\ edges' = edges \cup
          {Edge(threads[t].new_edge_id, threads[t].call.from_node_id,
                threads[t].call.from_node_type, threads[t].call.from_position,
                threads[t].new_node_id, threads[t].call.to_node_type, "active")}
    /\ threads' = [threads EXCEPT ![t].pc = "done"]

ConcurrentReadEdgeId ==
    /\ mode = "concurrent"
    /\ \E t \in 1..2 : ReadEdgeId(t)
    /\ UNCHANGED <<mode, lastCall, scnStep, rendered, output, renderRaised, renderCalls,
                   renderFollowed>>

ConcurrentReadNodeId ==
    /\ mode = "concurrent"
    /\ \E t \in 1..2 : ReadNodeId(t)
    /\ UNCHANGED <<mode, lastCall, scnStep, rendered, output, renderRaised, renderCalls,
                   renderFollowed>>

ConcurrentInsertEdge ==
    /\ mode = "concurrent"
    /\ \E t \in 1..2 : InsertEdge(t)
    /\ UNCHANGED <<mode, lastCall, scnStep, rendered, output, renderRaised, renderCalls,
                   renderFollowed>>

NextConcurrent == ConcurrentReadEdgeId \/ ConcurrentReadNodeId \/ ConcurrentInsertEdge

SpecConcurrent == InitConcurrent /\ [][NextConcurrent]_vars

\* C11: two concurrent add calls are never given the same node id or the same
\* edge id, and both their edges are in the store afterwards
C11_LinearizableIds ==
    (mode = "concurrent" /\ \A t \in 1..2 : threads[t].pc = "done")
    => /\ threads[1].new_edge_id # threads[2].new_edge_id
       /\ threads[1].new_node_id # threads[2].new_node_id
       /\ Cardinality(edges) = Cardinality(example) + 2

----------------------------------------------------------------------------
(* render on chains of elements as long as the interpreter's recursion limit *)

\* the longest chain has one edge more than the recursion limit has frames
MaxChain == RecursionLimit + 1

\* the chain node0 -> node1 -> ... whose i-th edge, edge(i-1), is at position q[i]
ChainOf(q) ==
    {Edge(EdgeId(i - 1), NodeId(i - 1), T_p, q[i], NodeId(i), T_p, "active") :
        i \in 1..Len(q)}

ChainStores ==
    UNION {{ChainOf(q) : q \in [1..k -> {P_firstChild, P_nextElement}]} : k \in 0..MaxChain}

\* the enumeration of a chain by edge id; no node of a chain has two outgoing
\* edges, so every loop of render sees at most one edge whatever the order
InIdOrder(es) ==
    [i \in 1..Cardinality(es) |-> CHOOSE e \in es : e.edge_id = EdgeId(i - 1)]

InitChain ==
    /\ edges \in ChainStores
    /\ mode = "chain"
    /\ lastCall = NoCall
    /\ scnStep = 0
    /\ rendered = NoRender
    /\ output = <<>>
    /\ renderRaised = FALSE
    /\ renderCalls = <<>>
    /\ renderFollowed = <<>>
    /\ threads = <<>>

\* one execution of render on the chain, from any of its nodes
ChainRenderCall ==
    /\ mode = "chain"
    /\ \E n \in StoreNodes(edges) \cup {NodeId(0)} :
          Rendered(n, T_p, render(InIdOrder(edges), n, T_p))
    /\ UNCHANGED <<edges, mode, lastCall, scnStep, threads>>

NextChain == ChainRenderCall

SpecChain == InitChain /\ [][NextChain]_vars

\* C12: on a store whose active edges satisfy I4, render returns from every
\* root, having been invoked on each node at most once
C12_RenderTerminates ==
    (mode = "chain" /\ rendered.called /\ I4(edges, rendered.root_node_id))
    => /\ ~renderRaised
       /\ \A i, j \in 1..Len(renderCalls) : renderCalls[i] = renderCalls[j] => i = j

----------------------------------------------------------------------------
(* render on malformed stores: cycles through any node, unrecognised types *)

GraphNodes == {NodeId(0), NodeId(1), NodeId(2)}

\* node0 is an element, node1 a leaf, node2 of a type render has no branch for
GraphNodeType(n) ==
    CASE n = NodeId(0) -> T_a
      [] n = NodeId(1) -> StringType(V_x)
      [] n = NodeId(2) -> T_linkedList

\* the edges a store is made of: between the element and either other node in
\* both directions, a self-loop of the element, and retired edges leaving the
\* node of unrecognised type
GraphEdgeChoices ==
    [from : {NodeId(0)}, to : GraphNodes,
     pos : {P_firstChild, P_nextElement}, st : {"active"}]
    \cup [from : {NodeId(1), NodeId(2)}, to : {NodeId(0)},
          pos : {P_firstChild, P_nextElement}, st : {"active"}]
    \cup [from : {NodeId(2)}, to : {NodeId(0)},
          pos : {P_firstChild, P_nextElement}, st : {"retired"}]

\* the store whose i-th edge, edge(i-1), is the i-th choice
GraphOf(q) ==
    {Edge(EdgeId(i - 1), q[i].from, GraphNodeType(q[i].from), q[i].pos,
          q[i].to, GraphNodeType(q[i].to), q[i].st) : i \in 1..Len(q)}

GraphStores ==
    UNION {{GraphOf(q) : q \in [1..k -> GraphEdgeChoices]} : k \in 0..MaxStoreEdges}

InitGraph ==
    /\ edges \in GraphStores
    /\ mode = "graph"
    /\ lastCall = NoCall
    /\ scnStep = 0
    /\ rendered = NoRender
    /\ output = <<>>
    /\ renderRaised = FALSE
    /\ renderCalls = <<>>
    /\ renderFollowed = <<>>
    /\ threads = <<>>

\* one execution of render on the store, from any of its nodes
GraphRenderCall ==
    /\ mode = "graph"
    /\ \E n \in GraphNodes : \E s \in Enumerations(edges) :
          Rendered(n, GraphNodeType(n), render(s, n, GraphNodeType(n)))
    /\ UNCHANGED <<edges, mode, lastCall, scnStep, threads>>

NextGraph == GraphRenderCall

SpecGraph == InitGraph /\ [][NextGraph]_vars

\* a cycle of active edges (a self-loop included) can be reached from r
CycleReachable(es, r) == \E n \in ReachFrom(es, {r}) : n \in Descendants(es, n)

\* C13: render on a store whose active edges contain a cycle reachable from the
\* root ends in a failure (cycle detected or depth limit), it does not return
C13_CycleGuard ==
    (mode = "graph" /\ rendered.called /\ CycleReachable(edges, rendered.root_node_id))
    => renderRaised

\* C15: render on a node whose type is neither a leaf nor an element and that
\* has no outgoing active edge emits the node's raw type token
C15_FallbackRendering ==
    (/\ mode = "graph"
     /\ rendered.called
     /\ ~is_string_node(rendered.root_node_type)
     /\ ~is_element_node(rendered.root_node_type)
     /\ \A e \in ActiveEdges(edges) : e.node_id_from # rendered.root_node_id)
    => output = rendered.root_node_type

----------------------------------------------------------------------------
(* Properties of sibling chaining, checked under SpecRender *)

\* an active nextElement edge leaving node n
IsSiblingEdge(e, n) ==
    e.node_id_from = n /\ e.status = "active" /\ e.position_from = P_nextElement

\* what render prints for the targets of the edges of list from the i-th on
RECURSIVE TargetsOutput(_, _, _)
TargetsOutput(s, list, i) ==
    IF i > Len(list) THEN <<>>
    ELSE render(s, list[i].node_id_to, list[i].node_type_to).out
         \o TargetsOutput(s, list, i + 1)

\* the part of the example store below the leaf "Hello, "
HelloStore == {e \in example : e.node_id_from \in {NodeId(5), NodeId(6)}}

HelloStrongWorld ==
    V_hello \o T_strong \o V_world \o <<"<","/","s","t","r","o","n","g",">">>

\* C14: what render prints for a leaf or an element is the node's own output
\* (the text payload of a leaf; the open tag, attributes, first child and
\* closing tag of an element) followed by the rendering of the targets of its
\* active nextElement edges; the leaf "Hello, " of the example renders as
\* Hello, <strong>world!</strong>
C14_SiblingChaining ==
    /\ \A s \in Enumerations(HelloStore) :
          render(s, NodeId(5), StringType(V_hello)).out = HelloStrongWorld
    /\ (mode = "render" /\ rendered.called /\ ~renderRaised)
       => \E s \in Enumerations(edges) :
            LET n == rendered.root_node_id
                t == rendered.root_node_type
                siblings == SelectSeq(s, LAMBDA e : IsSiblingEdge(e, n))
                alone == SelectSeq(s, LAMBDA e : ~IsSiblingEdge(e, n))
                own == render(alone, n, t).out
            IN /\ output = own \o TargetsOutput(s, siblings, 1)
               /\ is_string_node(t) => own = SliceBetween(t, 8, 2)
               /\ is_element_node(t) =>
                     /\ StartsWith(own, SliceBetween(t, 0, 1))
                     /\ EndsWith(own, <<"<", "/">> \o SliceFrom(t, 1))

\* a leaf with an active nextElement edge to an element whose first child is a
\* leaf has been rendered: x<a>y</a>
C14_Witness ==
    /\ mode = "render"
    /\ rendered.called
    /\ rendered.root_node_id = NodeId(1)
    /\ \E e \in edges : IsSiblingEdge(e, NodeId(1))
    /\ output = V_x \o T_a \o V_y \o <<"<","/","a",">">>

----------------------------------------------------------------------------
(* Properties of the stores the add functions build, checked under Spec *)

\* the active edges leaving node n at position pos
Occupants(es, n, pos) ==
    {e \in ActiveEdges(es) : e.node_id_from = n /\ e.position_from = pos}

\* C16 as stated: in every state reached from the example store by add calls,
\* each node has at most one active outgoing edge per position name
C16_SingleOccupant ==
    mode = "ui" =>
        \A e \in edges :
            Cardinality(Occupants(edges, e.node_id_from, e.position_from)) <= 1

\* C16 as the code has it: a position may hold several active edges; every add
\* call that returns adds one more active edge at the node and position it is
\* given, whether or not the position is occupied, and keeps the earlier ones
C16_OccupantsAccumulate ==
    [][(mode = "ui" /\ lastCall'.error = "none")
       => LET n == lastCall'.node_id_from
              pos == lastCall'.position_from
          IN /\ Occupants(edges, n, pos) \subseteq Occupants(edges', n, pos)
             /\ Cardinality(Occupants(edges', n, pos))
                   = Cardinality(Occupants(edges, n, pos)) + 1]_vars

\* add_firstChild has returned on the <a> node, whose firstChild position was
\* occupied in the example: the node has two active firstChild edges
C16_Witness ==
    /\ mode = "ui"
    /\ lastCall.op = "add_firstChild"
    /\ lastCall.error = "none"
    /\ lastCall.node_id_from = NodeId(1)
    /\ Cardinality(Occupants(edges, NodeId(1), P_firstChild)) >= 2

\* C17: in every state reached from the example store by add calls on nodes of
\* the store, each node id carries one type: the source type of every edge
\* leaving a node is the destination type of every edge that leads to it
C17_NodeTypeConsistent ==
    mode = "ui" =>
        \A e \in edges : \A c \in edges :
            c.node_id_to = e.node_id_from => e.node_type_from = c.node_type_to

----------------------------------------------------------------------------
(* add on stores handed to it from outside, whose edge ids have gaps *)

LoadedIds == 0..MaxLoadedId

\* the store of the edges edge<k>, k in K, from the element node0 to node(k+1)
LoadedOf(K) ==
    {Edge(EdgeId(k), NodeId(0), T_a, P_firstChild, NodeId(k + 1), T_p, "active") : k \in K}

LoadedStores == {LoadedOf(K) : K \in SUBSET LoadedIds}

InitLoaded ==
    /\ edges \in LoadedStores
    /\ mode = "loaded"
    /\ lastCall = NoCall
    /\ scnStep = 0
    /\ rendered = NoRender
    /\ output = <<>>
    /\ renderRaised = FALSE
    /\ renderCalls = <<>>
    /\ renderFollowed = <<>>
    /\ threads = <<>>

\* one call of add on the store, from node0
LoadedAddCall ==
    /\ mode = "loaded"
    /\ Cardinality(edges) <= MaxLoadedId
    /\ \E pos \in {P_firstChild, P_nextElement} : \E tt \in {T_p, StringType(V_x)} :
          Called("add", NodeId(0), T_a, pos, tt, add(edges, NodeId(0), T_a, pos, tt))
    /\ UNCHANGED <<mode, scnStep, rendered, output, renderRaised, renderCalls,
                   renderFollowed, threads>>

NextLoaded == LoadedAddCall

SpecLoaded == InitLoaded /\ [][NextLoaded]_vars

\* C18: on a store whose edge ids are pairwise different and of the form
\* edge<k>, add gives the new edge an id that no edge of the store has
C18_NextEdgeIdFresh ==
    [][(/\ mode = "loaded"
        /\ lastCall'.error = "none"
        /\ \A e1, e2 \in edges : e1.edge_id = e2.edge_id => e1 = e2)
       => \A e \in edges' \ edges : \A d \in edges : e.edge_id # d.edge_id]_vars

====
